---- MODULE Spec2Model ----
(***************************************************************************)
(* Formation MCP: the launch-and-wait workflow                             *)
(* (internal/workflows/workflows.go) and the token lifecycle of the        *)
(* Formation API client (internal/client/client.go).                       *)
(*                                                                         *)
(* Time is discrete.  Local computation takes no time: the clock advances  *)
(* only while the workflow goroutine is blocked, either in the select of   *)
(* the poll loop or inside an HTTP call.  A caller may cancel the context  *)
(* at any moment.                                                          *)
(***************************************************************************)
EXTENDS Integers, Sequences, FiniteSets, TLC

\* ------------------------------------------------------------------ bounds

\* The caller-supplied max-wait ranges over 0..MaxMaxWait time units.
MaxMaxWait == 4
\* The configured poll interval ranges over 1..MaxPollInterval time units.
MaxPollInterval == 2
\* An HTTP call returns after 0..MaxFetchDur time units.
MaxFetchDur == 3
\* Late enough for every call to have returned (the clock never stops a run).
MaxTime == MaxFetchDur + MaxMaxWait + MaxPollInterval + MaxFetchDur + 1

\* ------------------------------------------------------- workflow: types

Parameter(id, name, required) == [ID |-> id, Name |-> name, Required |-> required]

ParameterGroup(parameters) == [Parameters |-> parameters]

AppParameters(jobType, groups) == [OverallJobType |-> jobType, Groups |-> groups]

\* Parameter trees the parameters endpoint may answer with.
ParamTrees ==
  { <<>>,
    << ParameterGroup(<< Parameter("p1", "Param 1", FALSE) >>) >>,
    << ParameterGroup(<< Parameter("p1", "Param 1", TRUE) >>) >>,
    << ParameterGroup(<< Parameter("p1", "Param 1", FALSE) >>),
       ParameterGroup(<< Parameter("p2", "Param 2", TRUE) >>) >>,
    << ParameterGroup(<< Parameter("p2", "Param 2", TRUE),
                         Parameter("p1", "Param 1", TRUE) >>) >>,
    << ParameterGroup(<< Parameter("p2", "Param 2", TRUE) >>),
       ParameterGroup(<< Parameter("p1", "Param 1", TRUE) >>) >> }

\* Job-type tags the parameters endpoint may answer with.
JobTypes == {"Interactive", "INTERACTIVE", "Vice", "DE", ""}

ParamsResponses == { AppParameters(j, g) : j \in JobTypes, g \in ParamTrees }

\* A LaunchConfig is a map; its keys are what the workflow reads.
LaunchConfigs == { [k \in ks |-> "v"] : ks \in SUBSET {"p1", "p2"} }

LaunchResponses ==
  { [AnalysisID |-> "a1", Name |-> "n1", Status |-> s] : s \in {"Submitted", "Running"} }

AnalysisStatus(status, urlReady, url) ==
  [Status |-> status, URLReady |-> urlReady, URL |-> url]

\* Snapshots the status endpoint may answer with.
Snapshots ==
  { AnalysisStatus("Running", FALSE, ""),
    AnalysisStatus("Running", TRUE, ""),
    AnalysisStatus("Running", FALSE, "u1"),
    AnalysisStatus("Running", TRUE, "u1"),
    AnalysisStatus("Running", TRUE, "u2"),
    AnalysisStatus("Completed", FALSE, ""),
    AnalysisStatus("Failed", FALSE, ""),
    AnalysisStatus("Canceled", FALSE, "u1"),
    AnalysisStatus("Failed", TRUE, "u1") }

NilResult == [nil |-> TRUE]

LaunchResult(id, name, status, url, missing, interactive) ==
  [AnalysisID |-> id, Name |-> name, Status |-> status, URL |-> url,
   MissingParams |-> missing, IsInteractive |-> interactive]

NoError == [kind |-> "nil"]
GetParamsError == [kind |-> "failed to get app parameters"]
LaunchError == [kind |-> "failed to launch app"]
CtxError == [kind |-> "context done"]
TimeoutError(wait) == [kind |-> "timeout waiting for app to be ready", after |-> wait]
FailedError(status) == [kind |-> "analysis failed with status", status |-> status]

\* ------------------------------------------------- workflow: pure helpers

\* A variant that reports optional parameters too.
RECURSIVE MissingInGroup_OptionalToo(_, _)
MissingInGroup_OptionalToo(parameters, cfg) ==
  IF parameters = <<>> THEN <<>>
  ELSE LET param == Head(parameters)
           rest == MissingInGroup_OptionalToo(Tail(parameters), cfg)
       IN IF param.ID \notin DOMAIN cfg THEN <<param.Name>> \o rest ELSE rest

RECURSIVE MissingInGroup(_, _)
MissingInGroup(parameters, cfg) ==
  IF parameters = <<>> THEN <<>>
  ELSE LET param == Head(parameters)
           rest == MissingInGroup(Tail(parameters), cfg)
       IN IF param.Required /\ param.ID \notin DOMAIN cfg
          THEN <<param.Name>> \o rest
          ELSE rest

RECURSIVE MissingInGroups(_, _)
MissingInGroups(groups, cfg) ==
  IF groups = <<>> THEN <<>>
  ELSE MissingInGroup(Head(groups).Parameters, cfg) \o MissingInGroups(Tail(groups), cfg)

\* A variant that stops after the first parameter group.
checkMissingParams_FirstGroupOnly(params, cfg) ==
  IF params.Groups = <<>> THEN <<>>
  ELSE MissingInGroup(Head(params.Groups).Parameters, cfg)

checkMissingParams(params, cfg) == MissingInGroups(params.Groups, cfg)

\* A variant that takes every non-empty job type for interactive.
isInteractiveJobType_AnyTag(jobType) == jobType # ""

isInteractiveJobType(jobType) ==
  jobType = "Interactive" \/ jobType = "interactive" \/
  jobType = "VICE" \/ jobType = "vice"

\* A variant that takes only "Failed" for a terminal failure.
IsFailedStatus_FailedOnly(status) == status.Status = "Failed"

\* A variant that tests for failure first: a failed snapshot is never ready.
IsReady_UnlessFailed(status) ==
  status.URLReady /\ status.URL # "" /\ status.Status \notin {"Failed", "Canceled"}

\* A variant that does not look at the URL.
IsReady_FlagOnly(status) == status.URLReady

\* status.URLReady && status.URL != ""
IsReady(status) == status.URLReady /\ status.URL # ""

\* A variant that takes "Completed" for a terminal failure too.
IsFailedStatus_AnyTerminal(status) == status.Status \in {"Failed", "Canceled", "Completed"}

\* status.Status == "Failed" || status.Status == "Canceled"
IsFailedStatus(status) == status.Status = "Failed" \/ status.Status = "Canceled"

\* A variant for which the deadline has passed one time unit early.
After_UnitEarly(t, d) == t + 2 > d

\* time.Now().After(deadline)
After(t, d) == t > d

\* Clock readings are compared in half time units.  Line 93 reads the clock
\* at the instant the launch returned; line 94 creates the ticker a moment
\* later, so every tick the model places at an instant fires a moment after
\* it, and line 102 reads the clock later still.
HalfUnits(t) == 2 * t

\* time.Now() at line 102 when the tick is taken at instant t
TimeNow(t) == HalfUnits(t) + 1

\* A variant whose period is one time unit whatever the interval.
TickerNext_UnitPeriod(t, interval) == t + 1

\* A variant that fires once, like a timer.
TickerNext_OneShot(t, interval) == 0

\* time.NewTicker(d): after firing at t the ticker fires next at t + d.
TickerNext(t, interval) == t + interval

\* --------------------------------------------------------- client: types

\* tokenExpiryMargin, in seconds
tokenExpiryMargin == 60

\* The zero time.Time a new client's tokenExpiry holds: before every instant
\* of the clock.
ZeroTime == -1

\* The clock of the client runs in steps of ClockStep seconds, MaxClockSteps
\* of them.
ClockStep == 30
MaxClockSteps == 4
MaxClock == MaxClockSteps * ClockStep

\* The goroutines that call the one FormationClient.
Callers == {"c1", "c2"}

\* access_token and expires_in values the login endpoint may answer with.
AccessTokens == {"t1", "t2"}
ExpiresIns == {30, 60, 90, 150}

\* What one client operation has done so far.
NoOp == [stale |-> FALSE, logins |-> 0, loginOK |-> FALSE, got |-> "", expiresIn |-> 0,
         apiReqs |-> 0, sent |-> "", err |-> "nil",
         loginStatus |-> 0, status |-> 0, body |-> "", decoded |-> FALSE,
         errStatus |-> 0, errBody |-> ""]

\* The status codes POST /login and the API endpoints may answer with, and
\* the response bodies.
LoginStatuses == {200, 204, 401}
ApiStatuses == {200, 204, 400, 401}
Bodies == {"b1"}

\* A variant that takes every 2xx answer of the login for a success.
LoginStatusOK_Any2xx(s) == s >= 200 /\ s < 300

\* resp.StatusCode == http.StatusOK
LoginStatusOK(s) == s = 200

\* A variant that lets a plain 400 through.
IsErrorStatus_Above400(s) == s > 400

\* resp.StatusCode >= 400
IsErrorStatus(s) == s >= 400

\* A variant that asks for both credentials to be empty.
NoCredentials_BothEmpty(user, pass) == user = "" /\ pass = ""

\* c.username == "" || c.password == ""
CredentialsMissing(user, pass) == user = "" \/ pass = ""

\* A variant that does not look at the expiry.
Before_NoCheck(t, expiry) == TRUE

\* A variant that takes the expiry instant itself for unexpired.
Before_OrEqual(t, expiry) == t <= expiry

\* time.Now().Before(c.tokenExpiry)
Before(t, expiry) == t < expiry

\* ------------------------------------------------------------------ state

VARIABLES
  now,            \* the wall clock
  ctxDone,        \* "no", or the phase the workflow was in when ctx was cancelled
  pc,             \* where LaunchAndWait stands
  config,         \* the caller's LaunchConfig
  maxWait,        \* the caller's max-wait
  pollInterval,   \* w.pollInterval
  params,         \* the decoded parameters response (NilResult before)
  launchResp,     \* the decoded launch response (NilResult before)
  result,         \* the *LaunchResult returned or held (NilResult: nil)
  err,            \* the error returned
  deadline,       \* line 93
  nextTick,       \* the instant the ticker fires next (0: no ticker runs)
  tickBuf,        \* ticks waiting in ticker.C (capacity 1)
  ticks,          \* ticks the ticker has fired
  fetchAge,       \* how long the HTTP call in flight has been running
  statusSequence, \* the snapshots the status endpoint has answered with
  fetchFailed,    \* a status fetch of this call has failed
  slow,           \* a status fetch of this call outlasted the poll interval
  getParamsCalls, \* calls of client.GetAppParameters
  launchCalls,    \* calls of client.LaunchApp
  pollCalls,      \* calls of client.GetAnalysisStatus
  pollReqs,       \* status requests that went out on the wire
  token,          \* c.token
  tokenExpiry,    \* c.tokenExpiry
  username,       \* c.username
  password,       \* c.password
  cpc,            \* where each caller's client operation stands
  op,             \* what each caller's current operation has done
  tool,           \* the name of the tool called ("": no tool call)
  arguments,      \* request.Params.Arguments of the tool call
  tpc,            \* where the tool handler stands
  decoded,        \* the handler's params struct after unmarshalParams
  remoteCalls,    \* remote operations the handler has started
  lastCall,       \* the operation the handler called (NilResult: none)
  toolResult,     \* what the handler returned (NilResult before)
  cliConfig,      \* the *Config main builds from the command-line flags
  environ,        \* the process environment
  files,          \* the config files on disk, by path
  lpc,            \* where config.Load stands
  loadResult,     \* Load's result variable (NilResult before)
  loadErr,        \* the error Load returned
  bpc,            \* where BrowseData stands
  browseArgs,     \* the arguments of the BrowseData call
  browseRequest,  \* the request BrowseData hands to doRequest (NilResult before)
  response,       \* the HTTP response doRequest returned (NilResult before)
  browseResult    \* what BrowseData returned (NilResult before)

vars == <<now, ctxDone, pc, config, maxWait, pollInterval, params, launchResp, result, err,
          deadline, nextTick, tickBuf, ticks, fetchAge, statusSequence,
          fetchFailed, slow, getParamsCalls, launchCalls, pollCalls, pollReqs,
          token, tokenExpiry, username, password, cpc, op,
          tool, arguments, tpc, decoded, remoteCalls, lastCall, toolResult,
          cliConfig, environ, files, lpc, loadResult, loadErr,
          bpc, browseArgs, browseRequest, response, browseResult>>

configVars == <<cliConfig, environ, files, lpc, loadResult, loadErr>>
browseVars == <<bpc, browseArgs, browseRequest, response, browseResult>>
toolVars == <<tool, arguments, tpc, decoded, remoteCalls, lastCall, toolResult>>
clientVars == <<token, tokenExpiry, username, password, cpc, op>>
workflowVars == <<ctxDone, pc, config, maxWait, pollInterval, params, launchResp, result, err,
                  deadline, nextTick, tickBuf, ticks, fetchAge, statusSequence,
                  fetchFailed, slow, getParamsCalls, launchCalls, pollCalls, pollReqs>>

timing == <<now, nextTick, tickBuf, ticks>>
inputs == <<config, maxWait, pollInterval>>
counters == <<getParamsCalls, launchCalls, pollCalls, pollReqs>>

Cancelled == ctxDone # "no"

\* No tool handler runs.
NoToolCall ==
  /\ tool = ""
  /\ arguments = <<>>
  /\ tpc = "idle"
  /\ decoded = NilResult
  /\ remoteCalls = 0
  /\ lastCall = NilResult
  /\ toolResult = NilResult

\* config.Load is not running.
NoConfigLoad ==
  /\ cliConfig = NilResult
  /\ environ = NilResult
  /\ files = NilResult
  /\ lpc = "idle"
  /\ loadResult = NilResult
  /\ loadErr = NoError

\* No BrowseData call runs.
NoBrowse ==
  /\ bpc = "idle"
  /\ browseArgs = NilResult
  /\ browseRequest = NilResult
  /\ response = NilResult
  /\ browseResult = NilResult

\* NewFormationClient(baseURL, tok, user, pass)
NewFormationClient(tok, user, pass) ==
  /\ token = tok
  /\ tokenExpiry = ZeroTime
  /\ username = user
  /\ password = pass
  /\ cpc = [c \in Callers |-> "idle"]
  /\ op = [c \in Callers |-> NoOp]

\* One LaunchAndWait call on a workflow over a client with a static token
\* and no credentials: ensureToken lets every request go out with that token
\* and no operation changes the client's fields.
Init ==
  /\ NewFormationClient("t0", "", "")
  /\ NoToolCall
  /\ NoConfigLoad
  /\ NoBrowse
  /\ now = 0
  /\ ctxDone = "no"
  /\ pc = "start"
  /\ config \in LaunchConfigs
  /\ maxWait \in 0..MaxMaxWait
  /\ pollInterval \in 1..MaxPollInterval
  /\ params = NilResult
  /\ launchResp = NilResult
  /\ result = NilResult
  /\ err = NoError
  /\ deadline = 0
  /\ nextTick = 0
  /\ tickBuf = 0
  /\ ticks = 0
  /\ fetchAge = 0
  /\ statusSequence = <<>>
  /\ fetchFailed = FALSE
  /\ slow = FALSE
  /\ getParamsCalls = 0
  /\ launchCalls = 0
  /\ pollCalls = 0
  /\ pollReqs = 0

\* ----------------------------------------------------- workflow: actions

\* return from LaunchAndWait; the deferred ticker.Stop() runs
Return(res, e) ==
  /\ pc' = "done"
  /\ result' = res
  /\ err' = e
  /\ nextTick' = 0
  /\ tickBuf' = 0

\* Lines 43-46: the parameters call fails (at once when ctx is already done).
GetAppParametersFails ==
  /\ pc = "start"
  /\ getParamsCalls' = getParamsCalls + 1
  /\ Return(NilResult, GetParamsError)
  /\ UNCHANGED <<now, ticks, ctxDone, inputs, params, launchResp, deadline, fetchAge,
                 statusSequence, fetchFailed, slow, launchCalls, pollCalls, pollReqs>>
  /\ UNCHANGED <<clientVars, toolVars, configVars, browseVars>>

\* Lines 43-72: the parameters call succeeds; the required parameters are
\* checked and, when none is missing, LaunchApp is called.
GetAppParametersOK ==
  /\ pc = "start"
  /\ ~Cancelled
  /\ \E p \in ParamsResponses :
       LET missingParams == checkMissingParams(p, config) IN
       /\ params' = p
       /\ getParamsCalls' = getParamsCalls + 1
       /\ IF Len(missingParams) > 0
          THEN /\ Return(LaunchResult("", "", "", "", missingParams, FALSE), NoError)
               /\ UNCHANGED <<launchCalls, fetchAge>>
          ELSE /\ pc' = "launch"
               /\ launchCalls' = launchCalls + 1
               /\ fetchAge' = 0
               /\ UNCHANGED <<result, err, nextTick, tickBuf>>
  /\ UNCHANGED <<now, ticks, ctxDone, inputs, launchResp, deadline, statusSequence,
                 fetchFailed, slow, pollCalls, pollReqs>>
  /\ UNCHANGED <<clientVars, toolVars, configVars, browseVars>>

\* Lines 72-75: the launch call fails.
LaunchAppFails ==
  /\ pc = "launch"
  /\ Return(NilResult, LaunchError)
  /\ UNCHANGED <<now, ticks, ctxDone, inputs, params, launchResp, deadline, fetchAge,
                 statusSequence, fetchFailed, slow, counters>>
  /\ UNCHANGED <<clientVars, toolVars, configVars, browseVars>>

\* Lines 72-95: the launch call succeeds; a batch job returns, an
\* interactive one computes the deadline and starts the ticker.
LaunchAppOK ==
  /\ pc = "launch"
  /\ ~Cancelled
  /\ \E resp \in LaunchResponses :
       LET isInteractive == isInteractiveJobType(params.OverallJobType)
           res == LaunchResult(resp.AnalysisID, resp.Name, resp.Status, "",
                               <<>>, isInteractive)
       IN /\ launchResp' = resp
          /\ IF ~isInteractive
             THEN /\ Return(res, NoError)
                  /\ UNCHANGED deadline
             ELSE /\ result' = res
                  /\ deadline' = now + maxWait
                  /\ nextTick' = TickerNext(now, pollInterval)
                  /\ pc' = "select"
                  /\ UNCHANGED <<err, tickBuf>>
  /\ UNCHANGED <<now, ticks, ctxDone, inputs, params, fetchAge, statusSequence,
                 fetchFailed, slow, counters>>
  /\ UNCHANGED <<clientVars, toolVars, configVars, browseVars>>

\* Lines 99-100: the select takes ctx.Done().
SelectCtxDone ==
  /\ pc = "select"
  /\ Cancelled
  /\ Return(result, CtxError)
  /\ UNCHANGED <<now, ticks, ctxDone, inputs, params, launchResp, deadline, fetchAge,
                 statusSequence, fetchFailed, slow, counters>>
  /\ UNCHANGED <<clientVars, toolVars, configVars, browseVars>>

\* Lines 101-110: the select takes a tick; past the deadline the call times
\* out, otherwise GetAnalysisStatus is called.  With ctx already done the
\* HTTP client fails the call before anything is sent.
SelectTick ==
  /\ pc = "select"
  /\ tickBuf = 1
  /\ IF After(TimeNow(now), HalfUnits(deadline))
     THEN /\ Return(result, TimeoutError(maxWait))
          /\ UNCHANGED <<pollCalls, pollReqs, fetchAge, fetchFailed>>
     ELSE /\ tickBuf' = 0
          /\ pollCalls' = pollCalls + 1
          /\ IF Cancelled
             THEN /\ fetchFailed' = TRUE
                  /\ UNCHANGED <<pc, pollReqs, fetchAge>>
             ELSE /\ pc' = "fetch"
                  /\ pollReqs' = pollReqs + 1
                  /\ fetchAge' = 0
                  /\ UNCHANGED fetchFailed
          /\ UNCHANGED <<result, err, nextTick>>
  /\ UNCHANGED <<now, ticks, ctxDone, inputs, params, launchResp, deadline, statusSequence,
                 slow, getParamsCalls, launchCalls>>
  /\ UNCHANGED <<clientVars, toolVars, configVars, browseVars>>

\* A variant that returns the fetch error instead of continuing.
FetchFails_Abort ==
  /\ pc = "fetch"
  /\ Return(result, GetParamsError)
  /\ fetchFailed' = TRUE
  /\ slow' = (slow \/ fetchAge > pollInterval)
  /\ UNCHANGED <<now, ticks, ctxDone, inputs, params, launchResp, deadline, fetchAge,
                 statusSequence, counters>>
  /\ UNCHANGED <<clientVars, toolVars, configVars, browseVars>>

\* Lines 106-110: the status fetch fails; the loop continues.
FetchFails ==
  /\ pc = "fetch"
  /\ pc' = "select"
  /\ fetchFailed' = TRUE
  /\ slow' = (slow \/ fetchAge > pollInterval)
  /\ UNCHANGED <<timing, ctxDone, inputs, params, launchResp, result, err, deadline, fetchAge,
                 statusSequence, counters>>
  /\ UNCHANGED <<clientVars, toolVars, configVars, browseVars>>

\* Lines 106-125: the status fetch answers with a snapshot.
FetchOK ==
  /\ pc = "fetch"
  /\ ~Cancelled
  /\ \E status \in Snapshots :
       LET held == [result EXCEPT !.Status = status.Status, !.URL = status.URL] IN
       /\ statusSequence' = Append(statusSequence, status)
       /\ IF IsReady(status)
          THEN Return(held, NoError)
          ELSE IF IsFailedStatus(status)
               THEN Return(held, FailedError(status.Status))
               ELSE /\ result' = held
                    /\ pc' = "select"
                    /\ UNCHANGED <<err, nextTick, tickBuf>>
  /\ slow' = (slow \/ fetchAge > pollInterval)
  /\ UNCHANGED <<now, ticks, ctxDone, inputs, params, launchResp, deadline, fetchAge,
                 fetchFailed, counters>>
  /\ UNCHANGED <<clientVars, toolVars, configVars, browseVars>>

\* The goroutine is blocked: in the select with nothing to receive, or in an
\* HTTP call that has not answered yet.
Blocked ==
  /\ ~Cancelled
  /\ \/ pc = "select" /\ tickBuf = 0
     \/ pc \in {"launch", "fetch"} /\ fetchAge < MaxFetchDur

\* One time unit passes; the ticker fires when its instant is reached and
\* drops the tick when the previous one has not been received.
Advance ==
  /\ Blocked
  /\ now < MaxTime
  /\ now' = now + 1
  /\ fetchAge' = IF pc \in {"launch", "fetch"} THEN fetchAge + 1 ELSE fetchAge
  /\ IF nextTick # 0 /\ now' = nextTick
     THEN /\ tickBuf' = 1
          /\ ticks' = ticks + 1
          /\ nextTick' = TickerNext(nextTick, pollInterval)
     ELSE UNCHANGED <<tickBuf, ticks, nextTick>>
  /\ UNCHANGED <<ctxDone, pc, inputs, params, launchResp, result, err, deadline,
                 statusSequence, fetchFailed, slow, counters>>
  /\ UNCHANGED <<clientVars, toolVars, configVars, browseVars>>

\* The caller cancels ctx (or its deadline passes).
Cancel ==
  /\ pc # "done"
  /\ ~Cancelled
  /\ ctxDone' = pc
  /\ UNCHANGED <<timing, pc, inputs, params, launchResp, result, err, deadline, fetchAge,
                 statusSequence, fetchFailed, slow, counters>>
  /\ UNCHANGED <<clientVars, toolVars, configVars, browseVars>>

Step ==
  \/ GetAppParametersFails
  \/ GetAppParametersOK
  \/ LaunchAppFails
  \/ LaunchAppOK
  \/ SelectCtxDone
  \/ SelectTick
  \/ FetchFails
  \/ FetchOK

Next == Step \/ Advance \/ Cancel

Spec == Init /\ [][Next]_vars

\* The calls made with an empty config (the poll loop reads no parameter).
FairInit == Init /\ DOMAIN config = {}

\* The goroutine runs when it can, every HTTP call returns, and time passes
\* (so the ticker keeps firing) while the goroutine is blocked.
FairSpec == FairInit /\ [][Next]_vars /\ WF_vars(Step) /\ WF_vars(Advance)

\* ------------------------------------------------------- client: actions

\* No LaunchAndWait call runs.
NoWorkflow ==
  /\ ctxDone = "no"
  /\ pc = "idle"
  /\ config = [k \in {} |-> "v"]
  /\ maxWait = 0
  /\ pollInterval = 1
  /\ params = NilResult
  /\ launchResp = NilResult
  /\ result = NilResult
  /\ err = NoError
  /\ deadline = 0
  /\ nextTick = 0
  /\ tickBuf = 0
  /\ ticks = 0
  /\ fetchAge = 0
  /\ statusSequence = <<>>
  /\ fetchFailed = FALSE
  /\ slow = FALSE
  /\ getParamsCalls = 0
  /\ launchCalls = 0
  /\ pollCalls = 0
  /\ pollReqs = 0

\* A client as main builds it: any of token, username and password may be
\* empty.
ClientInit ==
  /\ \E tok \in {"", "t0"}, user \in {"", "user"}, pass \in {"", "pass"} :
       NewFormationClient(tok, user, pass)
  /\ now = 0
  /\ NoWorkflow
  /\ NoToolCall
  /\ NoConfigLoad
  /\ NoBrowse

\* c.token != "" && time.Now().Before(c.tokenExpiry)
TokenValid == token # "" /\ Before(now, tokenExpiry)

\* c.username == "" || c.password == ""
NoCredentials == CredentialsMissing(username, password)

\* doRequest lines 157-160 with ensureToken lines 96-113: caller c starts an
\* operation; a valid token or a token without credentials goes on to the
\* request, no token and no credentials fails, otherwise POST /login is
\* sent (Login lines 118-127).
EnsureToken(c) ==
  /\ cpc[c] = "idle"
  /\ LET started == [NoOp EXCEPT !.stale = ~TokenValid] IN
     IF TokenValid
     THEN /\ cpc' = [cpc EXCEPT ![c] = "request"]
          /\ op' = [op EXCEPT ![c] = started]
     ELSE IF NoCredentials
          THEN IF token = ""
               THEN /\ cpc' = [cpc EXCEPT ![c] = "done"]
                    /\ op' = [op EXCEPT ![c] =
                                [started EXCEPT !.err = "no token or credentials available"]]
               ELSE /\ cpc' = [cpc EXCEPT ![c] = "request"]
                    /\ op' = [op EXCEPT ![c] = started]
          ELSE /\ cpc' = [cpc EXCEPT ![c] = "login"]
               /\ op' = [op EXCEPT ![c] = [started EXCEPT !.logins = 1]]
  /\ UNCHANGED <<now, token, tokenExpiry, username, password, workflowVars, toolVars, configVars, browseVars>>

\* Login lines 127-144: the login request fails, answers with a status
\* other than 200, or its body does not decode.
LoginFails(c) ==
  /\ cpc[c] = "login"
  /\ cpc' = [cpc EXCEPT ![c] = "done"]
  /\ \/ op' = [op EXCEPT ![c].err = "login request failed"]
     \/ \E s \in LoginStatuses, b \in Bodies :
          /\ ~LoginStatusOK(s)
          /\ op' = [op EXCEPT ![c].loginStatus = s, ![c].body = b,
                              ![c].err = "login failed with status",
                              ![c].errStatus = s, ![c].errBody = b]
     \/ \E s \in LoginStatuses :
          /\ LoginStatusOK(s)
          /\ op' = [op EXCEPT ![c].loginStatus = s,
                              ![c].err = "failed to decode login response"]
  /\ UNCHANGED <<now, token, tokenExpiry, username, password, workflowVars, toolVars, configVars, browseVars>>

\* Login lines 136-146: the login answers 200; the access token is stored.
LoginStoresToken(c) ==
  /\ cpc[c] = "login"
  /\ \E s \in LoginStatuses, tok \in AccessTokens, e \in ExpiresIns :
       /\ LoginStatusOK(s)
       /\ token' = tok
       /\ op' = [op EXCEPT ![c].loginStatus = s, ![c].loginOK = TRUE, ![c].got = tok,
                           ![c].expiresIn = e]
  /\ cpc' = [cpc EXCEPT ![c] = "expiry"]
  /\ UNCHANGED <<now, tokenExpiry, username, password, workflowVars, toolVars, configVars, browseVars>>

\* Login lines 148-152: the expiry is stored with the safety margin.
LoginStoresExpiry(c) ==
  /\ cpc[c] = "expiry"
  /\ tokenExpiry' = now + op[c].expiresIn - tokenExpiryMargin
  /\ cpc' = [cpc EXCEPT ![c] = "request"]
  /\ UNCHANGED <<now, token, username, password, op, workflowVars, toolVars, configVars, browseVars>>

\* doRequest lines 162-178: the API request is sent with the token the
\* client holds at this moment.
SendRequest(c) ==
  /\ cpc[c] = "request"
  /\ op' = [op EXCEPT ![c].apiReqs = op[c].apiReqs + 1, ![c].sent = token]
  /\ cpc' = [cpc EXCEPT ![c] = "api"]
  /\ UNCHANGED <<now, token, tokenExpiry, username, password, workflowVars, toolVars, configVars, browseVars>>

\* doRequest lines 178-193: the API request fails, or answers: a status
\* of 400 and above becomes an error with the status and the body, any
\* other answer goes back to the operation, which decodes it.
RequestReturns(c) ==
  /\ cpc[c] = "api"
  /\ \/ op' = [op EXCEPT ![c].err = "request failed"]
     \/ \E s \in ApiStatuses, b \in Bodies :
          IF IsErrorStatus(s)
          THEN op' = [op EXCEPT ![c].status = s, ![c].body = b,
                               ![c].err = "request failed with status",
                               ![c].errStatus = s, ![c].errBody = b]
          ELSE \/ op' = [op EXCEPT ![c].status = s, ![c].body = b, ![c].decoded = TRUE]
               \/ op' = [op EXCEPT ![c].status = s, ![c].body = b,
                                   ![c].err = "failed to decode response"]
  /\ cpc' = [cpc EXCEPT ![c] = "done"]
  /\ UNCHANGED <<now, token, tokenExpiry, username, password, workflowVars, toolVars, configVars, browseVars>>

\* The operation has returned to its caller, who may start another.
Finish(c) ==
  /\ cpc[c] = "done"
  /\ cpc' = [cpc EXCEPT ![c] = "idle"]
  /\ op' = [op EXCEPT ![c] = NoOp]
  /\ UNCHANGED <<now, token, tokenExpiry, username, password, workflowVars, toolVars, configVars, browseVars>>

\* ClockStep seconds pass.
ClockTick ==
  /\ pc = "idle"
  /\ now < MaxClock
  /\ now' = now + ClockStep
  /\ UNCHANGED <<clientVars, workflowVars, toolVars, configVars, browseVars>>

ClientNext ==
  \/ \E c \in Callers :
       \/ EnsureToken(c)
       \/ LoginFails(c)
       \/ LoginStoresToken(c)
       \/ LoginStoresExpiry(c)
       \/ SendRequest(c)
       \/ RequestReturns(c)
       \/ Finish(c)
  \/ ClockTick

ClientSpec == ClientInit /\ [][ClientNext]_vars

\* ------------------------------------------------------------ server: tools

\* The tools registerTools adds, with the fields each input schema
\* declares required.
Required ==
  [ list_apps |-> {},
    get_app_parameters |-> {"app_id"},
    launch_app_and_wait |-> {"app_id"},
    get_analysis_status |-> {"analysis_id"},
    list_running_analyses |-> {},
    stop_analysis |-> {"analysis_id"},
    open_in_browser |-> {"url"},
    browse_data |-> {"path"},
    create_directory |-> {"path"},
    upload_file |-> {"path", "content"},
    set_metadata |-> {"path", "metadata"},
    delete_data |-> {"path"} ]

ToolNames == DOMAIN Required

\* A JSON value of the arguments object: its JSON type and its literal.
StringArg(s) == [type |-> "string", val |-> s]
NumberArg(s) == [type |-> "number", val |-> s]
ObjectArg(s) == [type |-> "object", val |-> s]
BoolArg(s) == [type |-> "boolean", val |-> s]

\* The JSON type the field of the handler's params struct decodes from.
FieldType(f) ==
  CASE f \in {"max_wait", "limit", "offset"} -> "number"
    [] f \in {"config", "metadata"} -> "object"
    [] f \in {"save_outputs", "recurse", "dry_run", "replace", "include_metadata"} -> "boolean"
    [] OTHER -> "string"

\* strconv of the number literals the requests of the model carry
Atoi(s) == CASE s = "0" -> 0 [] s = "1" -> 1 [] s = "2" -> 2 [] s = "7" -> 7 [] OTHER -> 0

\* The config object a literal stands for: "p1,p2" is {"p1": "v", "p2": "v"}.
ConfigOf(s) ==
  CASE s = "p1" -> [k \in {"p1"} |-> "v"]
    [] s = "p2" -> [k \in {"p2"} |-> "v"]
    [] s = "p1,p2" -> [k \in {"p1", "p2"} |-> "v"]
    [] OTHER -> [k \in {} |-> "v"]

\* max_wait when the request carries none (handleLaunchAppAndWait)
DefaultMaxWait == 300

\* The fields of each handler's params struct that the model reads, with
\* the values they hold before unmarshalParams: Go's zero value, or the
\* default the handler assigns.
ParamsStruct(t) ==
  CASE t = "get_app_parameters" -> [app_id |-> "", system_id |-> "de"]
    [] t = "launch_app_and_wait" ->
         [app_id |-> "", system_id |-> "de", config |-> ConfigOf(""),
          max_wait |-> DefaultMaxWait]
    [] t = "get_analysis_status" -> [analysis_id |-> ""]
    [] t = "stop_analysis" -> [analysis_id |-> "", save_outputs |-> TRUE]
    [] t = "open_in_browser" -> [url |-> ""]
    [] t = "browse_data" ->
         [path |-> "", offset |-> 0, limit |-> 0, include_metadata |-> FALSE]
    [] t = "create_directory" -> [path |-> "", metadata |-> ConfigOf("")]
    [] t = "delete_data" -> [path |-> "", recurse |-> FALSE, dry_run |-> FALSE]
    [] t = "upload_file" -> [path |-> "", content |-> "", metadata |-> ConfigOf("")]
    [] t = "set_metadata" -> [path |-> "", metadata |-> ConfigOf(""), replace |-> FALSE]
    [] t = "list_apps" -> [name |-> "", limit |-> 10, offset |-> 0]
    [] OTHER -> [status |-> "Running"]

\* The defaults the input schemas declare ("default": ...), per tool.
SchemaDefaults(t) ==
  CASE t = "list_apps" -> [limit |-> 10, offset |-> 0]
    [] t = "get_app_parameters" -> [system_id |-> "de"]
    [] t = "launch_app_and_wait" -> [system_id |-> "de", max_wait |-> 300]
    [] t = "list_running_analyses" -> [status |-> "Running"]
    [] t = "stop_analysis" -> [save_outputs |-> TRUE]
    [] t = "browse_data" -> [offset |-> 0, limit |-> 100, include_metadata |-> FALSE]
    [] t = "set_metadata" -> [replace |-> FALSE]
    [] t = "delete_data" -> [recurse |-> FALSE, dry_run |-> FALSE]
    [] OTHER -> <<>>

\* json.Unmarshal of one argument into its struct field
Decode(f, arg) ==
  CASE FieldType(f) = "number" -> Atoi(arg.val)
    [] FieldType(f) = "object" -> ConfigOf(arg.val)
    [] FieldType(f) = "boolean" -> (arg.val = "true")
    [] OTHER -> arg.val

\* unmarshalParams fails when an argument does not have the JSON type of
\* its struct field; an argument the struct has no field for is ignored.
UnmarshalFails(args, struct) ==
  \E f \in DOMAIN args \cap DOMAIN struct : args[f].type # FieldType(f)

\* unmarshalParams: the struct after a successful decode; a field the
\* arguments do not carry keeps the value it had.
unmarshalParams(args, struct) ==
  [f \in DOMAIN struct |-> IF f \in DOMAIN args THEN Decode(f, args[f]) ELSE struct[f]]

InvalidParamsError == [kind |-> "invalid parameters"]
RemoteError == [kind |-> "remote operation failed"]

\* mcp.NewToolResultText(text)
NewToolResultText(text) == [text |-> text]

\* What a handler returns: (*mcp.CallToolResult, error).
ToolReturn(res, e) == [result |-> res, err |-> e]

\* A variant that reports the partial result as text next to the error.
handleLaunchAppAndWait_PartialText(res, e) ==
  IF e # NoError /\ res # NilResult
  THEN ToolReturn(NewToolResultText([title |-> "Partial", Status |-> res.Status]), e)
  ELSE ToolReturn(NilResult, e)

\* handleLaunchAppAndWait from the return of LaunchAndWait on: an error is
\* handed on with a nil result, otherwise the text names the missing
\* parameters or the launched analysis.
handleLaunchAppAndWait(res, e) ==
  IF e # NoError THEN ToolReturn(NilResult, e)
  ELSE IF Len(res.MissingParams) > 0
       THEN ToolReturn(NewToolResultText([title |-> "Missing Required Parameters",
                                          missing |-> res.MissingParams]), NoError)
       ELSE IF res.IsInteractive
            THEN ToolReturn(NewToolResultText(
                   [title |-> "Interactive App Launched Successfully",
                    AnalysisID |-> res.AnalysisID, Name |-> res.Name,
                    Status |-> res.Status, URL |-> res.URL]), NoError)
            ELSE ToolReturn(NewToolResultText(
                   [title |-> "Batch Job Launched Successfully",
                    AnalysisID |-> res.AnalysisID, Name |-> res.Name,
                    Status |-> res.Status]), NoError)

\* A variant that sends saveOutputs as a second query parameter.
ControlAnalysis_WithSaveOutputs(analysisID, operation, saveOutputs) ==
  [method |-> "POST",
   path |-> <<"apps", "analyses", analysisID, "control">>,
   query |-> [operation |-> operation, save_outputs |-> saveOutputs]]

\* FormationClient.ControlAnalysis: the request it sends.  Only the
\* operation is put into the query.
ControlAnalysis(analysisID, operation, saveOutputs) ==
  [method |-> "POST",
   path |-> <<"apps", "analyses", analysisID, "control">>,
   query |-> [operation |-> operation]]

\* FormationWorkflows.StopAnalysis
StopAnalysis(analysisID, saveOutputs) ==
  ControlAnalysis(analysisID, IF saveOutputs THEN "save_and_exit" ELSE "exit", saveOutputs)

\* The characters of the path literals the requests of the model carry
\* (a name of several letters stands as one element).
Chars(s) ==
  CASE s = "a/b" -> <<"a", "/", "b">>
    [] s = "/a/b" -> <<"/", "a", "/", "b">>
    [] s = "//a/b" -> <<"/", "/", "a", "/", "b">>
    [] OTHER -> <<>>

\* A variant that removes every leading occurrence of the prefix.
RECURSIVE TrimPrefix_All(_, _)
TrimPrefix_All(s, prefix) ==
  IF Len(s) >= Len(prefix) /\ SubSeq(s, 1, Len(prefix)) = prefix
  THEN TrimPrefix_All(SubSeq(s, Len(prefix) + 1, Len(s)), prefix)
  ELSE s

\* strings.TrimPrefix: s without the prefix when s starts with it, else s
TrimPrefix(s, prefix) ==
  IF Len(s) >= Len(prefix) /\ SubSeq(s, 1, Len(prefix)) = prefix
  THEN SubSeq(s, Len(prefix) + 1, Len(s))
  ELSE s

\* FormationClient.buildDataPath: "/data/" + strings.TrimPrefix(path, "/")
buildDataPath(path) == <<"/", "data", "/">> \o TrimPrefix(path, <<"/">>)

\* The handlers whose client operation builds its request path with
\* buildDataPath.
DataTools == {"browse_data", "create_directory", "upload_file", "set_metadata",
              "delete_data"}

\* The operation a handler calls with its decoded params; for
\* stop_analysis the request that operation sends, for the data tools
\* the path of that request.
HandlerOperation(t, struct) ==
  IF t = "stop_analysis"
  THEN StopAnalysis(struct.analysis_id, struct.save_outputs)
  ELSE IF t \in DataTools
       THEN [call |-> t, path |-> buildDataPath(Chars(struct.path)), params |-> struct]
       ELSE [call |-> t, params |-> struct]

\* The arguments a request may give a field.
ArgChoices(f) ==
  CASE f = "app_id" -> {StringArg("app1"), NumberArg("7")}
    [] f = "analysis_id" -> {StringArg("a1"), NumberArg("7")}
    [] f = "max_wait" -> {NumberArg("0"), NumberArg("2")}
    [] f = "config" -> {ObjectArg("p1")}
    [] f = "metadata" -> {ObjectArg("p1"), StringArg("x")}
    [] f = "save_outputs" -> {BoolArg("true"), BoolArg("false")}
    [] f = "limit" -> {NumberArg("2")}
    [] f = "include_metadata" -> {BoolArg("true"), BoolArg("false")}
    [] f = "path" -> {StringArg("a/b"), StringArg("/a/b"), StringArg("//a/b"),
                      NumberArg("7")}
    [] OTHER -> {StringArg("x"), NumberArg("7")}

\* The fields a request of the model may carry.
RequestFields(t) ==
  CASE t = "launch_app_and_wait" -> {"app_id", "config", "max_wait"}
    [] t = "stop_analysis" -> {"analysis_id", "save_outputs"}
    [] t = "browse_data" -> {"path", "include_metadata"}
    [] t = "list_apps" -> {"limit"}
    [] OTHER -> Required[t]

ArgValues == UNION { ArgChoices(f) : f \in {"app_id", "analysis_id", "max_wait", "config",
                                                  "metadata", "save_outputs", "path",
                                                  "limit", "include_metadata"} }

\* The requests of the model: every field may be absent, except that a
\* launch request names its max_wait.
Requests(t) ==
  { a \in UNION { [S -> ArgValues] : S \in SUBSET RequestFields(t) } :
      /\ \A f \in DOMAIN a : a[f] \in ArgChoices(f)
      /\ t = "launch_app_and_wait" => "max_wait" \in DOMAIN a }

\* One tool call arrives at its handler.
ToolInit ==
  /\ NewFormationClient("t0", "", "")
  /\ NoConfigLoad
  /\ NoBrowse
  /\ now = 0
  /\ NoWorkflow
  /\ tool \in ToolNames
  /\ arguments \in Requests(tool)
  /\ tpc = "called"
  /\ decoded = NilResult
  /\ remoteCalls = 0
  /\ lastCall = NilResult
  /\ toolResult = NilResult

\* if err := unmarshalParams(request, &params); err != nil { return nil, err }
HandlerUnmarshalFails ==
  /\ tpc = "called"
  /\ UnmarshalFails(arguments, ParamsStruct(tool))
  /\ tpc' = "returned"
  /\ toolResult' = ToolReturn(NilResult, InvalidParamsError)
  /\ UNCHANGED <<tool, arguments, decoded, remoteCalls, lastCall, now, workflowVars,
                 clientVars, configVars, browseVars>>

\* The arguments decode and the handler starts its operation: a call of
\* the client or of a workflow (open_in_browser starts a local command).
HandlerCallsRemote ==
  /\ tpc = "called"
  /\ tool # "launch_app_and_wait"
  /\ ~UnmarshalFails(arguments, ParamsStruct(tool))
  /\ decoded' = unmarshalParams(arguments, ParamsStruct(tool))
  /\ tpc' = "remote"
  /\ remoteCalls' = IF tool = "open_in_browser" THEN remoteCalls ELSE remoteCalls + 1
  /\ lastCall' = HandlerOperation(tool, decoded')
  /\ UNCHANGED <<tool, arguments, toolResult, now, workflowVars, clientVars, configVars, browseVars>>

\* handleLaunchAppAndWait: the arguments decode and LaunchAndWait is called
\* with the config and max_wait of the params struct.
HandlerCallsLaunchAndWait ==
  /\ tpc = "called"
  /\ tool = "launch_app_and_wait"
  /\ ~UnmarshalFails(arguments, ParamsStruct(tool))
  /\ decoded' = unmarshalParams(arguments, ParamsStruct(tool))
  /\ tpc' = "workflow"
  /\ pc' = "start"
  /\ config' = decoded'.config
  /\ maxWait' = decoded'.max_wait
  /\ UNCHANGED <<tool, arguments, remoteCalls, lastCall, toolResult, now, ctxDone, pollInterval,
                 params, launchResp, result, err, deadline, nextTick, tickBuf, ticks,
                 fetchAge, statusSequence, fetchFailed, slow, counters, clientVars, configVars, browseVars>>

\* LaunchAndWait runs inside the handler.
LaunchAndWaitRuns ==
  /\ tpc = "workflow"
  /\ Next

\* handleLaunchAppAndWait: LaunchAndWait has returned.
LaunchAndWaitReturns ==
  /\ tpc = "workflow"
  /\ pc = "done"
  /\ tpc' = "returned"
  /\ toolResult' = handleLaunchAppAndWait(result, err)
  /\ UNCHANGED <<tool, arguments, decoded, remoteCalls, lastCall, now, workflowVars,
                 clientVars, configVars, browseVars>>

\* if err != nil { return nil, err }
OperationFails ==
  /\ tpc = "remote"
  /\ tpc' = "returned"
  /\ toolResult' = ToolReturn(NilResult, RemoteError)
  /\ UNCHANGED <<tool, arguments, decoded, remoteCalls, lastCall, now, workflowVars,
                 clientVars, configVars, browseVars>>

\* return mcp.NewToolResultText(...), nil
OperationOK ==
  /\ tpc = "remote"
  /\ tpc' = "returned"
  /\ toolResult' = ToolReturn(NewToolResultText([title |-> tool]), NoError)
  /\ UNCHANGED <<tool, arguments, decoded, remoteCalls, lastCall, now, workflowVars,
                 clientVars, configVars, browseVars>>

ToolNext ==
  \/ HandlerUnmarshalFails
  \/ HandlerCallsRemote
  \/ HandlerCallsLaunchAndWait
  \/ LaunchAndWaitRuns
  \/ LaunchAndWaitReturns
  \/ OperationFails
  \/ OperationOK

ToolSpec == ToolInit /\ [][ToolNext]_vars

\* ------------------------------------------------------ config: types

\* type Config struct (config.go lines 17-44)
Config(baseURL, tok, user, pass, level, json, file, poll) ==
  [BaseURL |-> baseURL, Token |-> tok, Username |-> user, Password |-> pass,
   LogLevel |-> level, LogJSON |-> json, MetricsAddr |-> "", ConfigFile |-> file,
   PollInterval |-> poll]

\* DefaultConfig()
DefaultConfig == Config("", "", "", "", "info", FALSE, "", 5)

\* The configs main builds from the flags (a flag not given is "", false
\* or 0), and the nil config of a caller without flags.
FlagPollIntervals == {-1, 0, MaxPollInterval}
CliConfigs ==
  {NilResult} \cup
  { Config(b, t, "", "", l[1], l[2], f, p) :
      b \in {"", "https://cli"}, t \in {"", "tc"},
      l \in {<<"", FALSE>>, <<"debug", TRUE>>},
      f \in {"", "c.yaml"}, p \in FlagPollIntervals }

\* The environment variables FromEnv reads (METRICS_ADDR is never set here)
\* and HOME, which os.UserHomeDir reads.
Environments ==
  { [FORMATION_BASE_URL |-> b, FORMATION_TOKEN |-> t, FORMATION_USERNAME |-> c[1],
     FORMATION_PASSWORD |-> c[2], LOG_LEVEL |-> l[1], LOG_JSON |-> l[2],
     METRICS_ADDR |-> "", HOME |-> h] :
      b \in {"", "https://env/"}, t \in {"", "te"}, h \in {"", "/home/u"},
      c \in {<<"", "">>, <<"ue", "pe">>},
      l \in {<<"", "">>, <<"WARN", "true">>, <<"loud", "1">>} }

\* What a path holds: nothing, a file that cannot be read, a file that is
\* not a YAML mapping of the Config fields, or such a mapping.
Missing == [kind |-> "missing"]
Unreadable == [kind |-> "unreadable"]
Malformed == [kind |-> "malformed"]
Yaml(doc) == [kind |-> "yaml", doc |-> doc]

DefaultPaths == <<"~/.formation-mcp.yaml", "~/.config/formation-mcp/config.yaml">>
ConfigPaths == {"c.yaml"} \cup {DefaultPaths[i] : i \in DOMAIN DefaultPaths}

ExplicitFiles ==
  { Missing, Unreadable, Malformed,
    Yaml([k \in {} |-> ""]),
    Yaml([base_url |-> "https://file/", token |-> "tf"]),
    Yaml([base_url |-> "https://file/", token |-> "tf", poll_interval |-> 10]),
    Yaml([base_url |-> "https://file/", token |-> "tf", poll_interval |-> 0]),
    Yaml([base_url |-> "https://file/", token |-> "tf", poll_interval |-> -1,
          log_level |-> "ERROR", log_json |-> TRUE]) }

FileSystems ==
  { [p \in ConfigPaths |->
       IF p = "c.yaml" THEN e ELSE IF p = DefaultPaths[1] THEN h1 ELSE h2] :
      e \in ExplicitFiles,
      h1 \in {Missing, Yaml([base_url |-> "https://home", username |-> "uf",
                             password |-> "pf"])},
      h2 \in {Missing, Yaml([base_url |-> "https://home2", token |-> "tf2",
                             poll_interval |-> 7])} }

\* strings.TrimSuffix(baseURL, "/") on the base URLs of the model
TrimSuffix(baseURL) ==
  CASE baseURL = "https://env/" -> "https://env"
    [] baseURL = "https://file/" -> "https://file"
    [] OTHER -> baseURL

\* strings.ToLower on the log levels of the model
ToLowerLevel(level) ==
  CASE level = "WARN" -> "warn"
    [] level = "ERROR" -> "error"
    [] OTHER -> level

HomeDirError == [kind |-> "failed to get home directory"]
ReadFileError == [kind |-> "failed to read config file"]
ParseFileError == [kind |-> "failed to parse config file"]
BaseURLRequiredError == [kind |-> "FORMATION_BASE_URL is required"]
CredentialRequiredError ==
  [kind |-> "either FORMATION_TOKEN or FORMATION_USERNAME+FORMATION_PASSWORD must be provided"]
InvalidLogLevelError == [kind |-> "invalid log level"]

\* FromEnv(): nil unless FORMATION_BASE_URL is set; the poll interval of the
\* config it builds is always 5.
FromEnv(env) ==
  IF env.FORMATION_BASE_URL = "" THEN NilResult
  ELSE [BaseURL |-> TrimSuffix(env.FORMATION_BASE_URL),
        Token |-> env.FORMATION_TOKEN,
        Username |-> env.FORMATION_USERNAME,
        Password |-> env.FORMATION_PASSWORD,
        LogLevel |-> env.LOG_LEVEL,
        LogJSON |-> env.LOG_JSON \in {"true", "1"},
        MetricsAddr |-> env.METRICS_ADDR,
        ConfigFile |-> "",
        PollInterval |-> 5]

\* yaml.Unmarshal(data, cfg): the keys of the document replace the fields
\* of cfg, the others keep their value.
yamlUnmarshal(doc, cfg) ==
  LET Key(k, old) == IF k \in DOMAIN doc THEN doc[k] ELSE old IN
  [BaseURL |-> Key("base_url", cfg.BaseURL),
   Token |-> Key("token", cfg.Token),
   Username |-> Key("username", cfg.Username),
   Password |-> Key("password", cfg.Password),
   LogLevel |-> Key("log_level", cfg.LogLevel),
   LogJSON |-> Key("log_json", cfg.LogJSON),
   MetricsAddr |-> Key("metrics_addr", cfg.MetricsAddr),
   ConfigFile |-> cfg.ConfigFile,
   PollInterval |-> Key("poll_interval", cfg.PollInterval)]

\* strings.HasPrefix(path, "~/") on the paths of the model
HasHomePrefix(path) ==
  path \in {"~/.formation-mcp.yaml", "~/.config/formation-mcp/config.yaml"}

\* FromFile(path) over the file system fs, with home the value of HOME:
\* (nil, nil) for the empty path, an error for a path under "~/" when
\* os.UserHomeDir fails (HOME is empty), (nil, nil) for a file that does not
\* exist, an error for one that cannot be read or parsed, else the document
\* decoded over DefaultConfig() with the base URL's trailing slash removed.
\* The file system is keyed by the path before its expansion.
FromFile(fs, home, path) ==
  IF path = "" THEN [cfg |-> NilResult, err |-> NoError]
  ELSE IF HasHomePrefix(path) /\ home = "" THEN [cfg |-> NilResult, err |-> HomeDirError]
  ELSE IF fs[path] = Missing THEN [cfg |-> NilResult, err |-> NoError]
  ELSE IF fs[path] = Unreadable THEN [cfg |-> NilResult, err |-> ReadFileError]
  ELSE IF fs[path] = Malformed THEN [cfg |-> NilResult, err |-> ParseFileError]
  ELSE LET cfg == yamlUnmarshal(fs[path].doc, DefaultConfig) IN
       [cfg |-> [cfg EXCEPT !.BaseURL = TrimSuffix(cfg.BaseURL)], err |-> NoError]

\* mergeConfigs with a poll interval taken whenever it is not zero
mergeConfigs_NonZeroPoll(base, override) ==
  [BaseURL |-> IF override.BaseURL # "" THEN override.BaseURL ELSE base.BaseURL,
   Token |-> IF override.Token # "" THEN override.Token ELSE base.Token,
   Username |-> IF override.Username # "" THEN override.Username ELSE base.Username,
   Password |-> IF override.Password # "" THEN override.Password ELSE base.Password,
   LogLevel |-> IF override.LogLevel # "" THEN override.LogLevel ELSE base.LogLevel,
   LogJSON |-> IF override.LogJSON THEN override.LogJSON ELSE base.LogJSON,
   MetricsAddr |-> IF override.MetricsAddr # "" THEN override.MetricsAddr
                   ELSE base.MetricsAddr,
   ConfigFile |-> IF override.ConfigFile # "" THEN override.ConfigFile
                  ELSE base.ConfigFile,
   PollInterval |-> IF override.PollInterval # 0 THEN override.PollInterval
                    ELSE base.PollInterval]

\* mergeConfigs(base, override): the non-zero fields of override replace
\* those of base; a poll interval replaces only when it is positive.
mergeConfigs(base, override) ==
  [BaseURL |-> IF override.BaseURL # "" THEN override.BaseURL ELSE base.BaseURL,
   Token |-> IF override.Token # "" THEN override.Token ELSE base.Token,
   Username |-> IF override.Username # "" THEN override.Username ELSE base.Username,
   Password |-> IF override.Password # "" THEN override.Password ELSE base.Password,
   LogLevel |-> IF override.LogLevel # "" THEN override.LogLevel ELSE base.LogLevel,
   LogJSON |-> IF override.LogJSON THEN override.LogJSON ELSE base.LogJSON,
   MetricsAddr |-> IF override.MetricsAddr # "" THEN override.MetricsAddr
                   ELSE base.MetricsAddr,
   ConfigFile |-> IF override.ConfigFile # "" THEN override.ConfigFile
                  ELSE base.ConfigFile,
   PollInterval |-> IF override.PollInterval > 0 THEN override.PollInterval
                    ELSE base.PollInterval]

\* (*Config).Validate: the error it returns (NoError: nil)
Validate(c) ==
  IF c.BaseURL = "" THEN BaseURLRequiredError
  ELSE IF ~(c.Token # "") /\ ~(c.Username # "" /\ c.Password # "")
       THEN CredentialRequiredError
  ELSE IF ToLowerLevel(c.LogLevel) \notin {"debug", "info", "warn", "error"}
       THEN InvalidLogLevelError
  ELSE NoError

\* Load lines 125-148: the file Load reads, cfg.ConfigFile when the flags
\* name one, else the first default location that holds a file.
RECURSIVE FromDefaultPaths(_, _, _)
FromDefaultPaths(fs, home, i) ==
  IF i > Len(DefaultPaths) THEN [cfg |-> NilResult, err |-> NoError]
  ELSE LET r == FromFile(fs, home, DefaultPaths[i]) IN
       IF r.err # NoError \/ r.cfg # NilResult THEN r
       ELSE FromDefaultPaths(fs, home, i + 1)

LoadedFile(cfg, fs, home) ==
  IF cfg # NilResult /\ cfg.ConfigFile # ""
  THEN FromFile(fs, home, cfg.ConfigFile)
  ELSE FromDefaultPaths(fs, home, 1)

\* ---------------------------------------------------- config: actions

\* main calls config.Load(cliConfig) in some environment.
ConfigInit ==
  /\ NewFormationClient("t0", "", "")
  /\ now = 0
  /\ NoWorkflow
  /\ NoToolCall
  /\ NoBrowse
  /\ cliConfig \in CliConfigs
  /\ environ \in Environments
  /\ files \in FileSystems
  /\ lpc = "start"
  /\ loadResult = NilResult
  /\ loadErr = NoError

\* result := DefaultConfig()
LoadDefaults ==
  /\ lpc = "start"
  /\ loadResult' = DefaultConfig
  /\ lpc' = "file"
  /\ UNCHANGED <<cliConfig, environ, files, loadErr>>
  /\ UNCHANGED <<now, workflowVars, clientVars, toolVars, browseVars>>

\* FromFile fails: return nil, err
LoadFileFails ==
  /\ lpc = "file"
  /\ LoadedFile(cliConfig, files, environ.HOME).err # NoError
  /\ loadResult' = NilResult
  /\ loadErr' = LoadedFile(cliConfig, files, environ.HOME).err
  /\ lpc' = "done"
  /\ UNCHANGED <<cliConfig, environ, files>>
  /\ UNCHANGED <<now, workflowVars, clientVars, toolVars, browseVars>>

\* if fileCfg != nil { result = mergeConfigs(result, fileCfg) }
LoadFile ==
  /\ lpc = "file"
  /\ LET r == LoadedFile(cliConfig, files, environ.HOME) IN
       /\ r.err = NoError
       /\ loadResult' = IF r.cfg # NilResult THEN mergeConfigs(loadResult, r.cfg)
                        ELSE loadResult
  /\ lpc' = "env"
  /\ UNCHANGED <<cliConfig, environ, files, loadErr>>
  /\ UNCHANGED <<now, workflowVars, clientVars, toolVars, browseVars>>

\* envCfg := FromEnv(); if envCfg != nil { result = mergeConfigs(result, envCfg) }
LoadEnv ==
  /\ lpc = "env"
  /\ LET envCfg == FromEnv(environ) IN
       loadResult' = IF envCfg # NilResult THEN mergeConfigs(loadResult, envCfg)
                     ELSE loadResult
  /\ lpc' = "flags"
  /\ UNCHANGED <<cliConfig, environ, files, loadErr>>
  /\ UNCHANGED <<now, workflowVars, clientVars, toolVars, browseVars>>

\* if cfg != nil { result = mergeConfigs(result, cfg) }
LoadFlags ==
  /\ lpc = "flags"
  /\ loadResult' = IF cliConfig # NilResult THEN mergeConfigs(loadResult, cliConfig)
                   ELSE loadResult
  /\ lpc' = "validate"
  /\ UNCHANGED <<cliConfig, environ, files, loadErr>>
  /\ UNCHANGED <<now, workflowVars, clientVars, toolVars, browseVars>>

\* if err := result.Validate(); err != nil { return nil, err }
ValidateFails ==
  /\ lpc = "validate"
  /\ Validate(loadResult) # NoError
  /\ loadResult' = NilResult
  /\ loadErr' = Validate(loadResult)
  /\ lpc' = "done"
  /\ UNCHANGED <<cliConfig, environ, files>>
  /\ UNCHANGED <<now, workflowVars, clientVars, toolVars, browseVars>>

\* Validate lower-cases the log level; return result, nil
ValidateOK ==
  /\ lpc = "validate"
  /\ Validate(loadResult) = NoError
  /\ loadResult' = [loadResult EXCEPT !.LogLevel = ToLowerLevel(loadResult.LogLevel)]
  /\ lpc' = "done"
  /\ UNCHANGED <<cliConfig, environ, files, loadErr>>
  /\ UNCHANGED <<now, workflowVars, clientVars, toolVars, browseVars>>

ConfigNext ==
  \/ LoadDefaults
  \/ LoadFileFails
  \/ LoadFile
  \/ LoadEnv
  \/ LoadFlags
  \/ ValidateFails
  \/ ValidateOK

ConfigSpec == ConfigInit /\ [][ConfigNext]_vars

\* ---------------------------------------------------- client: BrowseData

\* metadataHeaderPrefix = "X-Datastore-"; header names are sequences of
\* their parts, so that the prefix is a prefix of the sequence.
metadataHeaderPrefix == <<"X-Datastore-">>

\* strings.HasPrefix
HasPrefix(s, prefix) == Len(s) >= Len(prefix) /\ SubSeq(s, 1, Len(prefix)) = prefix

\* The header fields a response may carry besides Content-Type, each with
\* one or two values.
HeaderNames == {<<"X-Datastore-", "Owner">>, <<"X-Datastore-", "Size">>, <<"X-Request-Id">>}
HeaderValues == {<<"v1">>, <<"v1", "v2">>}
Headers == UNION { [S -> HeaderValues] : S \in SUBSET HeaderNames }

ContentTypes == {"application/json", "application/json; charset=utf-8", "text/plain"}

\* strings.Contains(contentType, "application/json") on the content types
\* of the model
IsJSON(contentType) ==
  contentType \in {"application/json", "application/json; charset=utf-8"}

\* The bodies of a response: a JSON object (with the path the server
\* names, or without any field), text that is no JSON, and a body whose
\* read breaks off.
JSONBody(doc) == [kind |-> "json", doc |-> doc]
TextBody == [kind |-> "text"]
BrokenBody == [kind |-> "broken"]
ResponseBodies ==
  { JSONBody([path |-> "a/b", type |-> "collection", contents |-> <<>>]),
    JSONBody([path |-> "/iplant/home/u/a/b", type |-> "collection", contents |-> <<>>]),
    JSONBody([k \in {} |-> ""]),
    TextBody, BrokenBody }

\* The responses doRequest hands to BrowseData (status below 400).
Responses ==
  [contentType : ContentTypes, headers : Headers, body : ResponseBodies]

\* The arguments of a BrowseData call.
BrowseCalls == [path : {"a/b", "/a/b"}, offset : {0, 2}, limit : {0, 2},
                includeMetadata : BOOLEAN]

\* fmt.Sprintf("%d", n) on the offsets and limits of the model
Sprintf(n) == IF n = 2 THEN "2" ELSE "0"

\* BrowseData lines 336-350: the query and the path of the GET request
BrowseQuery(call) ==
  LET keys == (IF call.offset > 0 THEN {"offset"} ELSE {}) \cup
              (IF call.limit > 0 THEN {"limit"} ELSE {}) \cup
              (IF call.includeMetadata THEN {"include_metadata"} ELSE {}) IN
  [k \in keys |-> CASE k = "offset" -> Sprintf(call.offset)
                    [] k = "limit" -> Sprintf(call.limit)
                    [] k = "include_metadata" -> "true"]

BrowseRequest(call) ==
  [method |-> "GET", path |-> buildDataPath(Chars(call.path)), query |-> BrowseQuery(call)]

\* extractMetadataFromHeaders: one entry for every header whose name starts
\* with the prefix and that has a value, keyed by the name without the
\* prefix, holding the header's first value.
extractMetadataFromHeaders(headers) ==
  LET names == { k \in DOMAIN headers :
                   HasPrefix(k, metadataHeaderPrefix) /\ Len(headers[k]) > 0 } IN
  [key \in { TrimPrefix(k, metadataHeaderPrefix) : k \in names } |->
     headers[metadataHeaderPrefix \o key][1]]

DecodeDirectoryError == [kind |-> "failed to decode directory contents"]
ReadFileContentError == [kind |-> "failed to read file content"]
RequestError == [kind |-> "request failed"]

\* type DirectoryContents struct, decoded from a JSON object: a field the
\* object lacks keeps its zero value; there is no metadata field.
DirectoryContents(doc) ==
  [type |-> "DirectoryContents",
   Path |-> IF "path" \in DOMAIN doc THEN doc.path ELSE "",
   Type |-> IF "type" \in DOMAIN doc THEN doc.type ELSE "",
   Contents |-> IF "contents" \in DOMAIN doc THEN doc.contents ELSE <<>>]

\* type FileContent struct; a nil Metadata map is the empty mapping
FileContent(path, content, metadata) ==
  [type |-> "FileContent", Path |-> path, Content |-> content, Metadata |-> metadata]

\* BrowseData lines 357-387: what it returns for a response.  A JSON
\* response is decoded from its body, any other is read whole and becomes
\* the content of the file at the call's path.
BrowseData(call, resp) ==
  IF IsJSON(resp.contentType)
  THEN IF resp.body.kind = "json"
       THEN [value |-> DirectoryContents(resp.body.doc), err |-> NoError]
       ELSE [value |-> NilResult, err |-> DecodeDirectoryError]
  ELSE IF resp.body = BrokenBody
       THEN [value |-> NilResult, err |-> ReadFileContentError]
       ELSE [value |-> FileContent(call.path, resp.body,
                                   IF call.includeMetadata
                                   THEN extractMetadataFromHeaders(resp.headers)
                                   ELSE <<>>),
             err |-> NoError]

\* One BrowseData call on a client.
BrowseInit ==
  /\ NewFormationClient("t0", "", "")
  /\ now = 0
  /\ NoWorkflow
  /\ NoToolCall
  /\ NoConfigLoad
  /\ bpc = "called"
  /\ browseArgs \in BrowseCalls
  /\ browseRequest = NilResult
  /\ response = NilResult
  /\ browseResult = NilResult

\* BrowseData builds the query and the path and calls doRequest.
BrowseSends ==
  /\ bpc = "called"
  /\ browseRequest' = BrowseRequest(browseArgs)
  /\ bpc' = "request"
  /\ UNCHANGED <<browseArgs, response, browseResult>>
  /\ UNCHANGED <<now, workflowVars, clientVars, toolVars, configVars>>

\* doRequest returns an error: return nil, err
BrowseRequestFails ==
  /\ bpc = "request"
  /\ browseResult' = [value |-> NilResult, err |-> RequestError]
  /\ bpc' = "done"
  /\ UNCHANGED <<browseArgs, browseRequest, response>>
  /\ UNCHANGED <<now, workflowVars, clientVars, toolVars, configVars>>

\* doRequest returns a response.
BrowseResponds ==
  /\ bpc = "request"
  /\ response' \in Responses
  /\ bpc' = "response"
  /\ UNCHANGED <<browseArgs, browseRequest, browseResult>>
  /\ UNCHANGED <<now, workflowVars, clientVars, toolVars, configVars>>

\* BrowseData returns the listing, the file or the decode error.
BrowseReturns ==
  /\ bpc = "response"
  /\ browseResult' = BrowseData(browseArgs, response)
  /\ bpc' = "done"
  /\ UNCHANGED <<browseArgs, browseRequest, response>>
  /\ UNCHANGED <<now, workflowVars, clientVars, toolVars, configVars>>

BrowseNext ==
  \/ BrowseSends
  \/ BrowseRequestFails
  \/ BrowseResponds
  \/ BrowseReturns

BrowseSpec == BrowseInit /\ [][BrowseNext]_vars

\* ------------------------------------------------------------------ claims

\* Caller c's authentication is in progress: POST /login is out, or its
\* answer is being stored.
InLogin(c) == cpc[c] \in {"login", "expiry"}

\* C1: of two operations that run concurrently on the client while the
\* token is stale or absent and credentials are set, only one authenticates:
\* no caller starts a login while another caller's login is in progress.
C1_NoSecondLoginInProgress ==
  \A c, d \in Callers : (c # d /\ InLogin(c)) => ~InLogin(d)

\* C2: with credentials set, an operation started on a stale or absent
\* token sends exactly one POST /login and then exactly one API request,
\* which carries the token that login returned; an operation started on a
\* held, unexpired token sends no login.
C2_OneLoginThenRequestWithItsToken ==
  \A c \in Callers :
    /\ (cpc[c] # "idle" /\ op[c].stale /\ ~NoCredentials) =>
         /\ op[c].logins = 1
         /\ op[c].apiReqs <= 1
         /\ op[c].apiReqs = 1 => (op[c].loginOK /\ op[c].sent = op[c].got)
         /\ (cpc[c] = "done" /\ op[c].loginOK) => op[c].apiReqs = 1
    /\ (cpc[c] # "idle" /\ ~op[c].stale) => op[c].logins = 0


\* The required parameters of a tree whose id is no key of the config.
RequiredAbsent(p, cfg) ==
  { param \in UNION { { g.Parameters[i] : i \in 1..Len(g.Parameters) } :
                        g \in { p.Groups[j] : j \in 1..Len(p.Groups) } } :
      param.Required /\ param.ID \notin DOMAIN cfg }

Elements(seq) == { seq[i] : i \in 1..Len(seq) }

\* C3: whenever at least one required parameter's id is absent from the
\* caller's config, LaunchAndWait returns the names of the missing
\* parameters with no error, and no launch call and no status poll is made.
C3_MissingParamsReturnWithoutLaunch ==
  (params # NilResult /\ RequiredAbsent(params, config) # {}) =>
     /\ pc = "done"
     /\ err = NoError
     /\ result # NilResult
     /\ Elements(result.MissingParams) =
          { param.Name : param \in RequiredAbsent(params, config) }
     /\ launchCalls = 0
     /\ pollCalls = 0
     /\ pollReqs = 0
     /\ ticks = 0

C3_Witness ==
  /\ pc = "done"
  /\ params # NilResult
  /\ RequiredAbsent(params, config) # {}
  /\ result # NilResult
  /\ Len(result.MissingParams) > 0

\* C4: on an app whose job type is not interactive, LaunchAndWait makes
\* exactly one launch call and no status poll, and when the launch call
\* has answered it returns the launch response's analysis id and status,
\* whatever max-wait and the poll interval are.
C4_BatchReturnsAfterLaunch ==
  (params # NilResult /\ params.OverallJobType = "DE") =>
     /\ pollCalls = 0
     /\ pollReqs = 0
     /\ ticks = 0
     /\ launchCalls = (IF RequiredAbsent(params, config) = {} THEN 1 ELSE 0)
     /\ (launchResp # NilResult) =>
          /\ pc = "done"
          /\ err = NoError
          /\ launchCalls = 1
          /\ result # NilResult
          /\ result.AnalysisID = launchResp.AnalysisID
          /\ result.Status = launchResp.Status
          /\ result.URL = ""

C4_Witness ==
  /\ pc = "done"
  /\ params # NilResult
  /\ params.OverallJobType = "DE"
  /\ launchResp # NilResult
  /\ launchCalls = 1
  /\ maxWait > 0

\* A snapshot that is ready with a URL, and one that reports a terminal failure.
ReadySnap(st) == st.URLReady = TRUE /\ st.URL # ""
FailedSnap(st) == st.Status \in {"Failed", "Canceled"}

Polling == pc \in {"select", "fetch"}
Returned == pc = "done"
Interactive == result # NilResult /\ result.IsInteractive
LastSnap == statusSequence[Len(statusSequence)]
TimedOut == Returned /\ err = TimeoutError(maxWait)

\* The deadline has passed: the ticks and what follows them come a moment
\* after the instant they are placed at, the deadline does not.
DeadlinePassed == now >= deadline

\* What C5 says apart from its timing premise: a call that the scripted
\* snapshots alone decide (no fetch fails) returns success exactly at the
\* first ready-with-URL snapshot, with that snapshot's URL and one poll per
\* snapshot, each poll after a tick of its own.
C5_ReadyAtFirstReadySnapshot ==
  /\ pollCalls <= ticks
  /\ pollReqs <= pollCalls
  /\ (Interactive /\ statusSequence # <<>> /\ ReadySnap(LastSnap)) =>
        /\ Returned
        /\ err = NoError
        /\ result.URL = LastSnap.URL
        /\ result.Status = LastSnap.Status
        /\ \A i \in 1..(Len(statusSequence) - 1) : ~ReadySnap(statusSequence[i])
        /\ ~fetchFailed => pollCalls = Len(statusSequence)
  /\ (Interactive /\ Returned /\ err = NoError) =>
        /\ statusSequence # <<>>
        /\ ReadySnap(LastSnap)

\* C5 as stated: with k poll intervals fitting within max-wait, the k-th
\* poll is made, so a call does not time out after n snapshots while
\* (n+1) poll intervals still fit within max-wait.
C5_Original ==
  /\ C5_ReadyAtFirstReadySnapshot
  /\ (TimedOut /\ ~fetchFailed) =>
        (Len(statusSequence) + 1) * pollInterval > maxWait

\* C5 (amended): on an interactive app, when no status fetch fails and
\* every status fetch returns within one poll interval, the call whose
\* status sequence first shows url_ready with a non-empty URL at position k,
\* with k poll intervals shorter than max-wait (k * interval < max-wait),
\* makes exactly k polls, one per tick, and returns success with the URL of
\* the k-th snapshot.
C5_ExactlyKPollsThenURL ==
  /\ C5_ReadyAtFirstReadySnapshot
  /\ (TimedOut /\ ~fetchFailed /\ ~slow) =>
        (Len(statusSequence) + 1) * pollInterval >= maxWait

C5_Witness ==
  /\ Returned
  /\ err = NoError
  /\ ~fetchFailed
  /\ ~slow
  /\ Len(statusSequence) = 3
  /\ pollCalls = 3
  /\ ~ReadySnap(statusSequence[1])
  /\ ~ReadySnap(statusSequence[2])
  /\ result.URL = "u2"

\* C6: the first snapshot whose status is "Failed" or "Canceled" and that
\* is not ready-with-URL makes the call return an error naming that
\* status; it is the last snapshot fetched and no poll follows it.
C6_FailedSnapshotEndsPolling ==
  /\ \A i \in 1..Len(statusSequence) :
        (FailedSnap(statusSequence[i]) /\ ~ReadySnap(statusSequence[i])) =>
           /\ i = Len(statusSequence)
           /\ Returned
           /\ err = FailedError(statusSequence[i].Status)
           /\ result.Status = statusSequence[i].Status
           /\ nextTick = 0
           /\ tickBuf = 0
  /\ (Returned /\ err.kind = "analysis failed with status") =>
        /\ statusSequence # <<>>
        /\ FailedSnap(LastSnap)
        /\ err.status = LastSnap.Status

C6_Witness ==
  /\ Returned
  /\ Len(statusSequence) = 2
  /\ statusSequence[2].Status = "Canceled"
  /\ err = FailedError("Canceled")
  /\ pollCalls = 2

\* C7: an interactive call that never becomes ready and never fails times
\* out once the deadline is exceeded, and never polls or stays blocked
\* later than deadline + one poll interval.
C7_NeverBlockedPastDeadlinePlusInterval ==
  /\ (Interactive /\ (Polling \/ Returned)) => now <= deadline + pollInterval
  /\ TimedOut => DeadlinePassed

\* C8: every call on an interactive app eventually returns, in exactly one
\* of ready, failed, timed out or cancelled, and makes no poll afterwards.
C8_EventuallyReturns ==
  /\ [](Polling => <>Returned)
  /\ []((Interactive /\ Returned) =>
          \/ err = NoError /\ statusSequence # <<>> /\ ReadySnap(LastSnap)
          \/ err.kind = "analysis failed with status" /\ statusSequence # <<>>
                /\ FailedSnap(LastSnap)
          \/ err = TimeoutError(maxWait) /\ DeadlinePassed
          \/ err = CtxError /\ Cancelled)
  /\ [][Returned => (pc' = pc /\ pollCalls' = pollCalls /\ pollReqs' = pollReqs
                       /\ tickBuf' = 0 /\ nextTick' = 0)]_vars

C8_Witness ==
  /\ Interactive
  /\ Returned
  /\ err = TimeoutError(maxWait)
  /\ pollCalls >= 2
  /\ ~Cancelled

\* C9: when ctx is cancelled while the call is polling, the call returns
\* the cancellation error (not the timeout error, not a failure error)
\* together with the last known status.
C9_CancelReturnsCtxError ==
  (Returned /\ ctxDone \in {"select", "fetch"}) =>
     /\ err = CtxError
     /\ result # NilResult

\* C10: a status fetch that fails does not end the call and leaves the
\* held status and URL unchanged; the next tick, when the deadline has
\* not passed and ctx is not cancelled, makes another fetch; when every
\* fetch fails the call ends with the timeout error and the status of the
\* launch response.
C10_FailedFetchKeepsPolling ==
  /\ [][(pc = "fetch" /\ pc' # "fetch" /\ statusSequence' = statusSequence) =>
          (pc' = "select" /\ result' = result /\ err' = NoError /\ fetchFailed')]_vars
  /\ [][(pc = "select" /\ pc' # "select" /\ fetchFailed /\ ~Cancelled
           /\ ~DeadlinePassed) =>
          (pc' = "fetch" /\ pollReqs' = pollReqs + 1 /\ pollCalls' = pollCalls + 1)]_vars
  /\ []((Interactive /\ Returned /\ statusSequence = <<>>) =>
          /\ err \in {TimeoutError(maxWait), CtxError}
          /\ ~Cancelled => err = TimeoutError(maxWait)
          /\ result.Status = launchResp.Status
          /\ result.URL = "")

C10_Witness ==
  /\ Interactive
  /\ Returned
  /\ fetchFailed
  /\ ~Cancelled
  /\ statusSequence = <<>>
  /\ pollReqs >= 2
  /\ err = TimeoutError(maxWait)

\* The status LaunchAndWait last learnt: of the last snapshot fetched, or of
\* the launch response when no fetch succeeded.
LastKnownStatus ==
  IF statusSequence = <<>> THEN launchResp.Status ELSE LastSnap.Status

\* C11: when LaunchAndWait returns the timeout error, the partial result
\* it carries has the status of the last successfully fetched snapshot (of
\* the launch response if there is none) and an empty URL, whatever
\* snapshots the server returned.
C11_TimeoutResultHasNoURL ==
  TimedOut =>
     /\ result # NilResult
     /\ result.Status = LastKnownStatus
     /\ result.URL = ""

\* The tool call has returned to the MCP server.
ToolReturned == tpc = "returned"

\* The values the error of a handler's return is built from.
ErrorValues(ret) == { ret.err[f] : f \in DOMAIN ret.err }

\* C12: when a launch_app_and_wait call ends because polling saw a Failed
\* or Canceled status, the failure reported to the tool caller names the
\* status and carries the analysis id of the launched analysis.
C12_FailureCarriesAnalysisID ==
  (tool = "launch_app_and_wait" /\ ToolReturned
     /\ err.kind = "analysis failed with status") =>
     /\ toolResult.err # NoError
     /\ LastSnap.Status \in ErrorValues(toolResult)
     /\ launchResp.AnalysisID \in ErrorValues(toolResult)

\* C13: every tool handler returns either a text result with no error or
\* an error with no text result, never both and never neither; a
\* launch_app_and_wait call that ends in timeout, failure or cancellation
\* returns no text although the workflow holds a partial result.
C13_TextOrErrorNeverBoth ==
  ToolReturned =>
     /\ (toolResult.result = NilResult) # (toolResult.err = NoError)
     /\ (tool = "launch_app_and_wait" /\ decoded # NilResult /\ err # NoError) =>
           /\ toolResult.result = NilResult
           /\ toolResult.err = err

C13_Witness ==
  /\ ToolReturned
  /\ tool = "launch_app_and_wait"
  /\ err = TimeoutError(maxWait)
  /\ result # NilResult
  /\ result.Status = "Running"
  /\ toolResult.result = NilResult

\* A field the tool's schema declares required is not among the arguments.
LacksRequired == \E f \in Required[tool] : f \notin DOMAIN arguments

\* C14: a tool call whose arguments lack a field the tool's schema
\* declares required fails with a tool-level error, and no remote call is
\* made for it.
C14_MissingRequiredFailsBeforeRemote ==
  (tool # "" /\ LacksRequired) =>
     /\ remoteCalls = 0
     /\ getParamsCalls = 0
     /\ tpc \notin {"remote", "workflow"}
     /\ ToolReturned => toolResult.err = InvalidParamsError

\* strings.ToLower on the job-type tags of the model
ToLower(tag) ==
  CASE tag \in {"Interactive", "INTERACTIVE", "interactive"} -> "interactive"
    [] tag \in {"VICE", "Vice", "vice"} -> "vice"
    [] tag = "DE" -> "de"
    [] OTHER -> tag

\* C15: isInteractiveJobType returns true exactly for the job-type tags
\* that equal "interactive" or "vice" when compared case-insensitively (so
\* also for "INTERACTIVE" and "Vice"), and false for every other tag,
\* the empty one included.
C15_InteractiveIffCaseInsensitiveMatch ==
  (launchResp # NilResult) =>
     (result.IsInteractive <=> ToLower(params.OverallJobType) \in {"interactive", "vice"})

\* All parameters of a tree, in group then parameter order.
RECURSIVE Flatten(_)
Flatten(groups) ==
  IF groups = <<>> THEN <<>> ELSE Head(groups).Parameters \o Flatten(Tail(groups))

\* The names of a sequence of parameters.
Names(parameters) == [i \in 1..Len(parameters) |-> parameters[i].Name]

\* C16: checkMissingParams returns exactly the required parameters, over
\* all groups in group then parameter order, whose id is not a key of the
\* config: optional parameters never appear, and a tree with no required
\* parameter gives an empty result for every config.
C16_MissingAreRequiredAbsentInOrder ==
  (params # NilResult) =>
     LET missing == checkMissingParams(params, config)
         expected == LET absent(param) == param.Required /\ param.ID \notin DOMAIN config
                     IN Names(SelectSeq(Flatten(params.Groups), absent))
     IN /\ missing = expected
        /\ (\A i \in 1..Len(Flatten(params.Groups)) : ~Flatten(params.Groups)[i].Required)
              => missing = <<>>
        /\ (pc = "done" /\ launchCalls = 0 /\ err = NoError) => result.MissingParams = missing
        /\ launchCalls = 0 <=> missing # <<>>

\* A tree with an optional parameter only, launched with an empty config.
C16_WitnessNoRequired ==
  /\ params # NilResult
  /\ Len(params.Groups) = 1
  /\ ~params.Groups[1].Parameters[1].Required
  /\ DOMAIN config = {}
  /\ launchCalls = 1

C16_Witness ==
  /\ pc = "done"
  /\ params # NilResult
  /\ Len(params.Groups) = 2
  /\ params.Groups[1].Parameters[1].Required = FALSE
  /\ DOMAIN config = {}
  /\ result # NilResult
  /\ result.MissingParams = <<"Param 2">>

\* The client was built without a username or without a password.
StaticTokenOnly == username = "" \/ password = ""

\* C17: with no username/password configured, an operation on a client
\* that holds a non-empty token sends its API request with that token and
\* performs no login, stale or not; on a client whose token is empty it
\* fails with an error and sends no HTTP request at all.
C17_StaticTokenUsedWithoutLogin ==
  \A c \in Callers :
    (StaticTokenOnly /\ cpc[c] # "idle") =>
       /\ op[c].logins = 0
       /\ op[c].loginStatus = 0
       /\ token # "" =>
            /\ cpc[c] \in {"request", "api", "done"}
            /\ op[c].err # "no token or credentials available"
            /\ op[c].apiReqs = (IF cpc[c] = "request" THEN 0 ELSE 1)
            /\ op[c].apiReqs = 1 => op[c].sent = token
       /\ token = "" =>
            /\ cpc[c] = "done"
            /\ op[c].err = "no token or credentials available"
            /\ op[c].apiReqs = 0

C17_Witness ==
  /\ StaticTokenOnly
  /\ token = "t0"
  /\ now > 0
  /\ cpc["c1"] = "done"
  /\ op["c1"].stale
  /\ op["c1"].sent = "t0"
  /\ op["c1"].decoded

\* A client with neither token nor credentials has refused an operation.
C17_WitnessNoToken ==
  /\ StaticTokenOnly
  /\ token = ""
  /\ cpc["c1"] = "done"
  /\ op["c1"].err = "no token or credentials available"

\* C18: when POST /login answers with a status other than 200, Login
\* returns an error carrying the status and the body, leaves the client's
\* token and expiry exactly as they were, and the operation that
\* triggered the login sends no API request.
C18_FailedLoginChangesNothing ==
  /\ [][\A c \in Callers :
          (cpc[c] = "login" /\ op'[c].loginStatus \notin {0, 200}) =>
             /\ token' = token
             /\ tokenExpiry' = tokenExpiry
             /\ cpc'[c] = "done"
             /\ op'[c].err = "login failed with status"
             /\ op'[c].errStatus = op'[c].loginStatus
             /\ op'[c].errBody = op'[c].body
             /\ op'[c].errBody \in Bodies]_vars
  /\ [](\A c \in Callers :
          op[c].loginStatus \notin {0, 200} =>
             /\ cpc[c] = "done"
             /\ ~op[c].loginOK
             /\ op[c].apiReqs = 0
             /\ op[c].sent = "")

C18_Witness ==
  /\ cpc["c1"] = "done"
  /\ op["c1"].loginStatus = 204
  /\ op["c1"].err = "login failed with status"
  /\ token = "t0"
  /\ tokenExpiry = ZeroTime

\* C19: for every client operation other than login, a response with
\* status >= 400 makes the operation return an error carrying the status
\* code and the body text with no decoded result, and nothing is retried:
\* the operation sends exactly one API request and at most one login
\* request, also when an expired static token draws a 401.
C19_ErrorStatusNoRetry ==
  \A c \in Callers :
    /\ op[c].apiReqs <= 1
    /\ op[c].logins <= 1
    /\ op[c].status >= 400 =>
         /\ cpc[c] = "done"
         /\ op[c].err = "request failed with status"
         /\ op[c].errStatus = op[c].status
         /\ op[c].errBody = op[c].body
         /\ op[c].errBody \in Bodies
         /\ ~op[c].decoded
         /\ op[c].apiReqs = 1
    /\ (op[c].status > 0 /\ op[c].status < 400) =>
         op[c].err \in {"nil", "failed to decode response"}

C19_Witness ==
  /\ StaticTokenOnly
  /\ token = "t0"
  /\ cpc["c1"] = "done"
  /\ op["c1"].stale
  /\ op["c1"].status = 401
  /\ op["c1"].logins = 0
  /\ op["c1"].apiReqs = 1

\* The same with a login before the request that drew the error status.
C19_WitnessAfterLogin ==
  /\ cpc["c1"] = "done"
  /\ op["c1"].status = 400
  /\ op["c1"].logins = 1
  /\ op["c1"].apiReqs = 1

\* C20: controlAnalysis sends a POST to /apps/analyses/{analysis_id}/control
\* whose query string carries both the operation and the saveOutputs value,
\* for every operation and both values of saveOutputs.
C20_ControlQueryCarriesSaveOutputs ==
  (tool = "stop_analysis" /\ lastCall # NilResult) =>
     /\ lastCall.method = "POST"
     /\ lastCall.path = <<"apps", "analyses", decoded.analysis_id, "control">>
     /\ DOMAIN lastCall.query = {"operation", "save_outputs"}
     /\ lastCall.query.operation = (IF decoded.save_outputs THEN "save_and_exit" ELSE "exit")
     /\ lastCall.query.save_outputs = decoded.save_outputs

\* C25: in the poll loop the readiness test comes before the failure
\* test: a snapshot with url_ready and a non-empty URL ends LaunchAndWait
\* with success even when its status is "Failed" or "Canceled", and a
\* snapshot with url_ready but an empty URL does not end the wait as ready.
C25_ReadyBeforeFailed ==
  \A i \in 1..Len(statusSequence) :
    LET snap == statusSequence[i] IN
    /\ (snap.URLReady /\ snap.URL # "") =>
          /\ i = Len(statusSequence)
          /\ Returned
          /\ err = NoError
          /\ result.URL = snap.URL
          /\ result.Status = snap.Status
    /\ (snap.URLReady /\ snap.URL = "" /\ i = Len(statusSequence) /\ Returned) =>
          err # NoError
    /\ (snap.URLReady /\ snap.URL = "" /\ ~FailedSnap(snap) /\ i = Len(statusSequence)
          /\ ~Returned) => Polling

C25_Witness ==
  /\ Returned
  /\ err = NoError
  /\ Len(statusSequence) = 2
  /\ statusSequence[1] = AnalysisStatus("Running", TRUE, "")
  /\ statusSequence[2] = AnalysisStatus("Failed", TRUE, "u1")
  /\ result.URL = "u1"

\* No snapshot fetched so far is ready-with-URL or failed.
NeverReadyNorFailed ==
  \A i \in 1..Len(statusSequence) :
    ~ReadySnap(statusSequence[i]) /\ ~FailedSnap(statusSequence[i])

\* C26: an interactive analysis whose snapshots carry a status outside
\* {"Failed", "Canceled"} and are never ready-with-URL (one that reaches
\* "Completed", say) keeps LaunchAndWait polling on every tick it takes
\* until the deadline, and the call then ends with the timeout error, not
\* with success or a failure error.
C26_NeitherReadyNorFailedPollsUntilTimeout ==
  /\ []((Interactive /\ Returned /\ ~Cancelled /\ NeverReadyNorFailed) => TimedOut)
  /\ []((Interactive /\ ~Returned /\ NeverReadyNorFailed) => Polling)
  /\ [][(pc = "select" /\ pc' # "select" /\ ~Cancelled /\ ~DeadlinePassed
           /\ NeverReadyNorFailed) =>
          (pc' = "fetch" /\ pollCalls' = pollCalls + 1 /\ tickBuf = 1)]_vars

C26_Witness ==
  /\ TimedOut
  /\ ~Cancelled
  /\ ~fetchFailed
  /\ Len(statusSequence) = 3
  /\ statusSequence[1].Status = "Completed"
  /\ LastSnap.Status = "Completed"
  /\ result.Status = "Completed"

\* The instant LaunchApp returned (line 93: deadline = that instant + maxWait).
LaunchReturned == deadline - maxWait

\* C27: the first status poll is issued only after one full poll interval
\* has elapsed since the launch returned; when max-wait is shorter than
\* the poll interval the call issues no status poll and returns the
\* timeout error with the launch response's status; the number of polls
\* never exceeds max-wait / poll interval, rounded down.
C27_PollsAfterFullInterval ==
  (Interactive /\ launchResp # NilResult) =>
     /\ now < LaunchReturned + pollInterval => pollCalls = 0
     /\ pollCalls <= maxWait \div pollInterval
     /\ maxWait < pollInterval =>
          /\ pollCalls = 0
          /\ statusSequence = <<>>
          /\ (Returned /\ ~Cancelled) =>
               /\ err = TimeoutError(maxWait)
               /\ result.Status = launchResp.Status
               /\ result.URL = ""

C27_Witness ==
  /\ Interactive
  /\ TimedOut
  /\ ~Cancelled
  /\ maxWait = 1
  /\ pollInterval = 2
  /\ pollCalls = 0
  /\ now = LaunchReturned + pollInterval

\* A call that made as many polls as fit.
C27_WitnessMaxPolls ==
  /\ Interactive
  /\ maxWait = 3
  /\ pollInterval = 2
  /\ pollCalls = 1

\* Both a username and a password are configured.
HasCredentials == username # "" /\ password # ""

\* C28: a client constructed with both a static token and
\* username+password never sends the static token: its first operation
\* finds the token stale, performs a login, and the configured token is
\* replaced with the one the login returns before the API request is sent.
C28_StaticTokenNeverSentWithCredentials ==
  /\ [](HasCredentials =>
          \A c \in Callers :
            /\ op[c].sent # "t0"
            /\ token = "t0" =>
                 /\ tokenExpiry = ZeroTime
                 /\ cpc[c] \in {"idle", "login", "done"}
                 /\ op[c].apiReqs = 0
                 /\ cpc[c] # "idle" => (op[c].stale /\ op[c].logins = 1)
            /\ op[c].apiReqs = 1 => (token \in AccessTokens /\ op[c].sent \in AccessTokens))
  /\ [][(HasCredentials /\ token = "t0" /\ token' # token) =>
          \E c \in Callers : cpc[c] = "login" /\ op'[c].loginOK /\ token' = op'[c].got]_vars

C28_Witness ==
  /\ HasCredentials
  /\ token = "t0"
  /\ cpc["c1"] = "login"
  /\ op["c1"].stale
  /\ op["c1"].logins = 1
  /\ cpc["c2"] = "idle"

\* C29: the stored expiry is login time + expires_in - 60 seconds; so
\* when the login endpoint returns expires_in <= 60 the fresh token is
\* stale at the next check, and with credentials set an operation that
\* starts then performs its own login.
C29_ExpiryIsLoginPlusExpiresInMinus60 ==
  /\ [][\A c \in Callers :
          (cpc[c] = "expiry" /\ cpc'[c] = "request") =>
             /\ tokenExpiry' = now + op[c].expiresIn - 60
             /\ op[c].expiresIn <= 60 => ~TokenValid']_vars
  /\ [][\A c \in Callers :
          (cpc[c] = "idle" /\ cpc'[c] # "idle" /\ HasCredentials /\ tokenExpiry <= now) =>
             (cpc'[c] = "login" /\ op'[c].logins = 1)]_vars

C29_Witness ==
  /\ cpc["c1"] = "done"
  /\ op["c1"].loginOK
  /\ op["c1"].expiresIn = 60
  /\ op["c1"].apiReqs = 1
  /\ tokenExpiry = now
  /\ cpc["c2"] = "login"
  /\ op["c2"].logins = 1

\* A path without its leading slashes.
RECURSIVE StripLeadingSlashes(_)
StripLeadingSlashes(path) ==
  IF path # <<>> /\ Head(path) = "/" THEN StripLeadingSlashes(Tail(path)) ELSE path

\* C22: for every caller-supplied data-store path the request path is the
\* fixed root /data/ followed by the path with all its leading slashes
\* removed, so "a/b", "/a/b" and "//a/b" give the same request path.
C22_DataPathStripsLeadingSlashes ==
  (tool \in DataTools /\ lastCall # NilResult) =>
     lastCall.path = <<"/", "data", "/">> \o StripLeadingSlashes(Chars(decoded.path))

\* C24: for every tool, an optional argument absent from the call takes
\* the default the tool's schema declares before the remote call is made:
\* list_apps limit 10 and offset 0, system_id "de", max_wait 300, status
\* "Running", save_outputs true, browse_data limit 100 and offset 0,
\* include_metadata/replace/recurse/dry_run false.
C24_AbsentOptionalTakesSchemaDefault ==
  (tool # "" /\ decoded # NilResult) =>
     \A f \in DOMAIN SchemaDefaults(tool) :
        f \notin DOMAIN arguments => decoded[f] = SchemaDefaults(tool)[f]

\* Load has returned a configuration.
LoadSucceeded == lpc = "done" /\ loadErr = NoError

\* C30: the poll interval of the configuration a successful config.Load
\* returns is at least 1 second whatever the flags, the environment and the
\* config file hold: a zero or negative value of any source is passed over
\* for a lower-precedence value or the default 5, and Load's result never
\* holds a non-positive poll interval on the way.
C30_LoadedPollIntervalPositive ==
  /\ loadResult # NilResult => loadResult.PollInterval >= 1
  /\ LoadSucceeded => loadResult # NilResult

\* Load succeeds with a negative poll interval in the file it read and a
\* non-positive one in the flags.
C30_Witness ==
  /\ LoadSucceeded
  /\ cliConfig # NilResult
  /\ cliConfig.ConfigFile = "c.yaml"
  /\ cliConfig.PollInterval <= 0
  /\ files["c.yaml"].kind = "yaml"
  /\ "poll_interval" \in DOMAIN files["c.yaml"].doc
  /\ files["c.yaml"].doc.poll_interval < 0
  /\ FromEnv(environ) = NilResult
  /\ loadResult.PollInterval = 5

\* Load succeeds with the positive poll interval of the flags over the one
\* of the file.
C30_WitnessFlag ==
  /\ LoadSucceeded
  /\ cliConfig # NilResult
  /\ cliConfig.PollInterval > 0
  /\ loadResult.PollInterval = cliConfig.PollInterval

\* The configuration fields of the claim, and the YAML key and the
\* environment variable of each.
ConfigFields ==
  {"BaseURL", "Token", "Username", "Password", "LogLevel", "LogJSON", "PollInterval"}

YamlKey(f) ==
  CASE f = "BaseURL" -> "base_url"
    [] f = "Token" -> "token"
    [] f = "Username" -> "username"
    [] f = "Password" -> "password"
    [] f = "LogLevel" -> "log_level"
    [] f = "LogJSON" -> "log_json"
    [] f = "PollInterval" -> "poll_interval"

\* What a source sets a field to: <<v>>, or <<>> when it does not set it.
\* A flag sets a field when it differs from the flag's default.
FlagValue(f) ==
  IF cliConfig = NilResult THEN <<>>
  ELSE IF f = "LogJSON" THEN (IF cliConfig.LogJSON THEN <<TRUE>> ELSE <<>>)
  ELSE IF f = "PollInterval"
       THEN (IF cliConfig.PollInterval > 0 THEN <<cliConfig.PollInterval>> ELSE <<>>)
  ELSE IF cliConfig[f] # "" THEN <<cliConfig[f]>> ELSE <<>>

\* The environment sets a field when the field's variable is set; no
\* variable holds the poll interval.
EnvValue(f) ==
  LET Var(v) == IF v # "" THEN <<v>> ELSE <<>> IN
  CASE f = "BaseURL" -> Var(TrimSuffix(environ.FORMATION_BASE_URL))
    [] f = "Token" -> Var(environ.FORMATION_TOKEN)
    [] f = "Username" -> Var(environ.FORMATION_USERNAME)
    [] f = "Password" -> Var(environ.FORMATION_PASSWORD)
    [] f = "LogLevel" -> Var(environ.LOG_LEVEL)
    [] f = "LogJSON" -> IF environ.LOG_JSON \in {"true", "1"} THEN <<TRUE>> ELSE <<>>
    [] f = "PollInterval" -> <<>>

\* The path of the config file in use: the one the flags name, else the
\* first default location that holds a file ("": none).
ConfigFileInUse ==
  IF cliConfig # NilResult /\ cliConfig.ConfigFile # "" THEN cliConfig.ConfigFile
  ELSE IF files[DefaultPaths[1]] # Missing THEN DefaultPaths[1]
  ELSE IF files[DefaultPaths[2]] # Missing THEN DefaultPaths[2]
  ELSE ""

\* The file sets a field when its document has the field's key (and, for
\* the poll interval, a positive number).
FileValue(f) ==
  IF ConfigFileInUse = "" \/ files[ConfigFileInUse].kind # "yaml" THEN <<>>
  ELSE LET doc == files[ConfigFileInUse].doc IN
       IF YamlKey(f) \notin DOMAIN doc THEN <<>>
       ELSE IF f = "BaseURL" THEN <<TrimSuffix(doc.base_url)>>
       ELSE IF f = "PollInterval"
            THEN (IF doc.poll_interval > 0 THEN <<doc.poll_interval>> ELSE <<>>)
       ELSE <<doc[YamlKey(f)]>>

\* The value of the highest-precedence source that sets the field.
ByPrecedence(f) ==
  IF FlagValue(f) # <<>> THEN FlagValue(f)[1]
  ELSE IF EnvValue(f) # <<>> THEN EnvValue(f)[1]
  ELSE IF FileValue(f) # <<>> THEN FileValue(f)[1]
  ELSE DefaultConfig[f]

\* C23: for every configuration field (base URL, token, username, password,
\* log level, log format, poll interval) the value a successful config.Load
\* returns is the one of the highest-precedence source that sets the field,
\* in the order command line > environment > config file > defaults (the
\* log level in lower case): a token set only in the environment wins over
\* the file's token whether or not the environment sets the base URL, and
\* the file's poll interval is kept when the environment sets other fields.
C23_HighestPrecedenceSourceWins ==
  LoadSucceeded =>
     \A f \in ConfigFields :
        loadResult[f] = IF f = "LogLevel" THEN ToLowerLevel(ByPrecedence(f))
                        ELSE ByPrecedence(f)

\* The metadata a BrowseData result carries (none: the empty mapping).
MetadataOf(value) == IF "Metadata" \in DOMAIN value THEN value.Metadata ELSE <<>>

\* The response headers that carry the X-Datastore- prefix.
DatastoreHeaders(headers) == { k \in DOMAIN headers : k[1] = "X-Datastore-" }

\* C21: BrowseData called with includeMetadata=true returns, for a
\* directory response as well as for a file response, a metadata mapping
\* with exactly one entry per response header that carries the X-Datastore-
\* prefix, whose value is the first value of that header; called with
\* includeMetadata=false it returns no metadata.
C21_MetadataFromPrefixedHeaders ==
  (bpc = "done" /\ browseResult.err = NoError) =>
     LET metadata == MetadataOf(browseResult.value)
         prefixed == DatastoreHeaders(response.headers) IN
     IF browseArgs.includeMetadata
     THEN /\ DOMAIN metadata = { Tail(k) : k \in prefixed }
          /\ \A k \in prefixed : metadata[Tail(k)] = Head(response.headers[k])
     ELSE DOMAIN metadata = {}

====
